---- MODULE Spec2Model ----
(***************************************************************************)
(* Quiz session engine of the school-anthem location quiz                  *)
(* (src/mvp/src/App.tsx, the App component with hints and map answers):    *)
(* question generation, scoring, great-circle distance judging and the     *)
(* session controller's event handlers, one action per handler.            *)
(*                                                                         *)
(* React runs each handler to completion against the state of the last     *)
(* render and re-renders before the next discrete event, so every handler  *)
(* is one atomic action over the component's state variables.              *)
(***************************************************************************)
EXTENDS Integers, Sequences, FiniteSets, TLC

VARIABLES
    currentQuestion,   \* QuizQuestion | null
    selectedAnswer,    \* SchoolData | null
    showResult,        \* boolean
    score,             \* number
    questionCount,     \* number
    gameState,         \* 'ready' | 'playing' | 'finished'
    showFullLyrics,    \* boolean
    hintsUsed,         \* number
    showHints,         \* boolean[3], indexed 0..2 as in the source
    clickedPosition,   \* {lat, lng} | null
    mapAnswerMode,     \* boolean
    timers,            \* pending setTimeout callbacks of handleMapClick, oldest first
    asked,             \* history: questions generated since the last startGame
    roundPoints,       \* history: points awarded in each round since the last startGame
    replayed,          \* history: the last startGame followed a finished play-through
    data,              \* generateQuestion under test: the record store passed in
    question,          \* generateQuestion under test: what the call produced
    from,              \* calculateDistance under test: the point (lat1, lng1)
    to,                \* calculateDistance under test: the point (lat2, lng2)
    measured,          \* calculateDistance under test: what the call returned
    basic,             \* state of the basic 4-choice App component
    basicCorrect,      \* history: rounds the basic App's player answered correctly
    script             \* one run of start_collection.sh: its inputs, variables and output

vars == << currentQuestion, selectedAnswer, showResult, score, questionCount,
           gameState, showFullLyrics, hintsUsed, showHints, clickedPosition,
           mapAnswerMode, timers, asked, roundPoints, replayed,
           data, question, from, to, measured, basic, basicCorrect, script >>

sessionVars == << currentQuestion, selectedAnswer, showResult, score, questionCount,
                  gameState, showFullLyrics, hintsUsed, showHints, clickedPosition,
                  mapAnswerMode, timers, asked, roundPoints, replayed >>

genVars == << data, question >>

distVars == << from, to, measured >>

basicVars == << basic, basicCorrect >>

\* everything outside the session of the App component with hints and map
otherVars == << genVars, distVars, basicVars, script >>

-----------------------------------------------------------------------------
(* Bounds of the exploration *)

\* rounds of the first play-through in which hint, toggle and map-click
\* events are explored; the later rounds and the replays are answered from
\* the choice list
MaxExtraRounds == 1
\* most deferred clears pending at once
MaxTimers == 2
\* largest record store handed to generateQuestion under test
MaxStore == 5
\* largest record store on which generateQuestion is called again and again
MaxRecalledStore == 3

-----------------------------------------------------------------------------
(* null and non-null values of a nullable state variable *)

Null == << >>
Some(v) == << v >>
Val(o) == o[1]

Max(a, b) == IF a >= b THEN a ELSE b
Abs(x) == IF x < 0 THEN 0 - x ELSE x

-----------------------------------------------------------------------------
(* Fixed-point arithmetic for calculateDistance: reals are scaled by 10^6  *)
(* (squares of sines by 10^9), every product is split so that no           *)
(* intermediate value leaves 32 bits.                                      *)

S6 == 1000000
PI6 == 3141593
HALF_PI6 == 1570796
QUARTER_PI6 == 785398
\* Math.PI / 180 scaled by 10^7 (the radians of a tenth of a degree, by 10^8)
DEG6 == 174533

\* x * y / 10^6 for |x|, |y| up to a few units
MulS(x, y) ==
    LET xh == x \div 1000  xl == x % 1000
        yh == y \div 1000  yl == y % 1000
    IN xh * yh + ((xh * yl + xl * yh + ((xl * yl) \div 1000)) \div 1000)

\* s * s / 10^3: the square of a 10^6-scaled s in [-1, 1], scaled by 10^9
Sq9(s) ==
    LET sh == s \div 1000  sl == s % 1000
    IN sh * sh * 1000 + 2 * sh * sl + ((sl * sl) \div 1000)

\* x * q / 10^6 for a 10^6-scaled x in [0, 1] and a 10^9-scaled q in [0, 1]
MulS9(x, q) ==
    LET xh == x \div 1000  xl == x % 1000
        qh == q \div 1000  ql == q % 1000
    IN xh * qh + ((xh * ql + xl * qh + ((xl * ql) \div 1000)) \div 1000)

\* p * 10^6 / q for 0 <= p <= q
DivS(p, q) ==
    LET n == p * 1000
    IN (n \div q) * 1000 + (((n % q) * 1000) \div q)

RECURSIVE SinSeries(_, _, _, _)
SinSeries(term, x2, k, acc) ==
    IF k > 11 THEN acc
    ELSE LET next == 0 - (MulS(term, x2) \div (k * (k - 1)))
         IN SinSeries(next, x2, k + 2, acc + next)

\* Math.sin on [-pi, pi], odd by construction
Sin(x) ==
    LET m == Abs(x)
        r == IF m > HALF_PI6 THEN Max(PI6 - m, 0) ELSE m
        t == SinSeries(r, MulS(r, r), 3, r)
        s == IF t > S6 THEN S6 ELSE IF t < 0 THEN 0 ELSE t
    IN IF x < 0 THEN 0 - s ELSE s

\* Math.cos on [-pi/2, pi/2], even by construction
Cos(x) == Sin(HALF_PI6 - Abs(x))

RECURSIVE SqrtSearch(_, _, _)
SqrtSearch(v, lo, hi) ==
    IF lo >= hi THEN lo
    ELSE LET mid == (lo + hi + 1) \div 2
             fits == \/ Sq9(mid) < v
                     \/ Sq9(mid) = v /\ ((mid % 1000) * (mid % 1000)) % 1000 = 0
         IN IF fits THEN SqrtSearch(v, mid, hi)
            ELSE SqrtSearch(v, lo, mid - 1)

\* Math.sqrt of a 10^9-scaled v in [0, 1], scaled by 10^6 (rounded down)
Sqrt(v) == SqrtSearch(v, 0, S6)

RECURSIVE AtanSeries(_, _, _, _)
AtanSeries(pow, u2, k, acc) ==
    IF k > 15 THEN acc
    ELSE LET next == 0 - MulS(pow, u2)
         IN AtanSeries(next, u2, k + 2, acc + (next \div k))

\* arctangent of a 10^6-scaled t in [0, 1]
AtanUnit(t) ==
    IF t <= 414214 THEN AtanSeries(t, MulS(t, t), 3, t)
    ELSE LET u == 0 - DivS(S6 - t, S6 + t)
         IN QUARTER_PI6 + AtanSeries(u, MulS(u, u), 3, u)

\* Math.atan2(y, x) for x, y >= 0, not both 0
Atan2(y, x) ==
    IF y <= x THEN AtanUnit(DivS(y, x))
    ELSE HALF_PI6 - AtanUnit(DivS(x, y))

\* degrees (in tenths) to radians: d * Math.PI / 180, and half of it
Rad(dd) == IF dd < 0 THEN 0 - ((Abs(dd) * DEG6) \div 100) ELSE (dd * DEG6) \div 100
HalfRad(dd) == IF dd < 0 THEN 0 - ((Abs(dd) * DEG6) \div 200) ELSE (dd * DEG6) \div 200

\* the result of arithmetic on the square root of a negative number
NaN == 0 - 1

\* Haversine distance. Coordinates are in tenths of a degree, the result is
\* in metres (the source's kilometres times 1000), NaN when 1 - a < 0.
calculateDistance(lat1, lng1, lat2, lng2) ==
    LET R == 6371
        dLat2 == HalfRad(lat2 - lat1)
        dLng2 == HalfRad(lng2 - lng1)
        a == Sq9(Sin(dLat2))
             + MulS9(MulS(Cos(Rad(lat1)), Cos(Rad(lat2))), Sq9(Sin(dLng2)))
        one == 1000 * S6
    IN IF a > one THEN NaN
       ELSE LET c == 2 * Atan2(Sqrt(a), Sqrt(one - a))
            IN (c \div 1000) * R + (((c % 1000) * R) \div 1000)

-----------------------------------------------------------------------------
(* The school record store *)

\* A SchoolData record: the fields the engine reads. Coordinates are in
\* tenths of a degree.
School(i, la, ln) ==
    [id |-> i, maskedLyrics |-> i, coordinates |-> [lat |-> la, lng |-> ln]]

\* Records the stores of the model are built from
Universe ==
    << School(1, 357, 1397), School(2, 347, 1355), School(3, 336, 1304),
       School(4, 352, 1369), School(5, 431, 1414), School(6, 262, 1277),
       School(7, 383, 1409) >>

\* the static store the session plays on
extendedSchoolData == SubSeq(Universe, 1, 4)

-----------------------------------------------------------------------------
(* Question Generator *)

\* seq rearranged by the bijection f
Permute(seq, f) == [i \in 1..Len(seq) |-> seq[f[i]]]

\* every order Array.prototype.sort can leave n elements in when the
\* comparator answers at random: the permutations of 1..n
AllOrders(n) ==
    { f \in [1..n -> 1..n] : \A i, j \in 1..n : f[i] = f[j] => i = j }

\* the outcomes of a random sort explored during a session: the order
\* kept and the order reversed, two of AllOrders(n)
SomeOrders(n) ==
    { [i \in 1..n |-> i], [i \in 1..n |-> n + 1 - i] }

\* the sort leaving the order as it was, one of AllOrders(n)
KeptOrder(n) == { [i \in 1..n |-> i] }

\* Array.prototype.slice(0, k)
Slice(seq, k) == SubSeq(seq, 1, IF Len(seq) < k THEN Len(seq) ELSE k)

\* data.filter(school => school.id !== correct.id), correct being d[i]
OtherChoices(d, i) == SelectSeq(d, LAMBDA school : school.id # d[i].id)

\* What the random source yields in one call on the store d: the index
\* Math.floor(Math.random() * data.length) and the outcomes of the two sorts
\* (every outcome, or for a session every index with the first sort keeping
\* the order and the second keeping or reversing it)
RandomSources(d, all) ==
    IF Len(d) = 0
    THEN { [index |-> 0, otherOrder |-> << >>, choiceOrder |-> << >>] }
    ELSE UNION {
           LET n == Len(OtherChoices(d, i + 1))
               m == 1 + (IF n < 3 THEN n ELSE 3)
           IN { [index |-> i, otherOrder |-> f, choiceOrder |-> g]
                : f \in (IF all THEN AllOrders(n) ELSE KeptOrder(n)),
                  g \in (IF all THEN AllOrders(m) ELSE SomeOrders(m)) }
           : i \in 0..(Len(d) - 1) }

\* what the call throws on an empty store: correct is undefined and
\* correct.maskedLyrics is read
TypeError == [error |-> "TypeError"]

\* the store after a generateQuestion that sorted data itself, the sort
\* leaving it reversed
dataAfterSortInPlace(d, rnd) == [i \in 1..Len(d) |-> d[Len(d) + 1 - i]]

\* the store after generateQuestion(data): data is read by the index
\* expression and by filter, which builds a new array; the first sort
\* rearranges that array and the second the array literal, never data
dataAfterGenerateQuestion(d, rnd) == d

\* generateQuestion without the filter that drops the correct record from
\* the other choices
generateQuestionUnfiltered(d, rnd) ==
    IF rnd.index + 1 > Len(d) THEN TypeError
    ELSE LET correct == d[rnd.index + 1]
             choices == << correct >> \o Slice(d, 3)
         IN [correct |-> correct, choices |-> choices,
             maskedLyrics |-> correct.maskedLyrics]

\* generateQuestion(data) under the random source rnd
generateQuestion(d, rnd) ==
    IF rnd.index + 1 > Len(d) THEN TypeError
    ELSE LET correct == d[rnd.index + 1]
             otherChoices == OtherChoices(d, rnd.index + 1)
             shuffled == Permute(otherChoices, rnd.otherOrder)
             choices == Permute(<< correct >> \o Slice(shuffled, 3), rnd.choiceOrder)
         IN [correct |-> correct, choices |-> choices,
             maskedLyrics |-> correct.maskedLyrics]

\* the questions generateQuestion(extendedSchoolData) yields in a session
SessionQuestions ==
    { generateQuestion(extendedSchoolData, rnd)
      : rnd \in RandomSources(extendedSchoolData, FALSE) }

-----------------------------------------------------------------------------
(* Scoring Engine *)

\* calculateScore without the map bonus
calculateScoreNoBonus(isMapAnswer) ==
    LET baseScore == 100
        penalty == hintsUsed * 20
    IN Max(baseScore - penalty, 20)

\* calculateScore(isMapAnswer), reading the round's hintsUsed
calculateScore(isMapAnswer) ==
    LET baseScore == 100
        penalty == hintsUsed * 20 - (IF isMapAnswer THEN 20 ELSE 0)
    IN Max(baseScore - penalty, 20)

-----------------------------------------------------------------------------
(* Session Controller *)

\* the state updates of generateNewQuestion for the question q
generateNewQuestion(q) ==
    /\ currentQuestion' = Some(q)
    /\ selectedAnswer' = Null
    /\ showResult' = FALSE
    /\ showFullLyrics' = FALSE
    /\ hintsUsed' = 0
    /\ showHints' = [i \in 0..2 |-> FALSE]
    /\ clickedPosition' = Null
    /\ mapAnswerMode' = FALSE

\* useState initial values followed by the mount effect, which generates a
\* first question behind the start screen
SessionInit ==
    /\ \E q \in SessionQuestions : currentQuestion = Some(q)
    /\ selectedAnswer = Null
    /\ showResult = FALSE
    /\ score = 0
    /\ questionCount = 0
    /\ gameState = "ready"
    /\ showFullLyrics = FALSE
    /\ hintsUsed = 0
    /\ showHints = [i \in 0..2 |-> FALSE]
    /\ clickedPosition = Null
    /\ mapAnswerMode = FALSE
    /\ timers = << >>
    /\ asked = 0
    /\ roundPoints = << >>
    /\ replayed = FALSE

\* the quiz screen is rendered: its buttons and the map exist
QuizScreen == gameState = "playing" /\ currentQuestion # Null

\* a round in which hint, toggle and map-click events are explored: the
\* first rounds of the first play-through (startGame puts a replay in the
\* state the first play-through started in, pending timers aside)
ExtraRound == questionCount < MaxExtraRounds /\ ~replayed

\* startGame without setScore(0)
startGameKeepsScore ==
    /\ gameState = "ready"
    /\ questionCount' = 0
    /\ gameState' = "playing"
    /\ \E q \in SessionQuestions : generateNewQuestion(q)
    /\ asked' = 1
    /\ roundPoints' = << 0 >>
    /\ replayed' = (asked # 0)
    /\ UNCHANGED << score, timers >>
    /\ UNCHANGED otherVars

\* the start button of the start screen
startGame ==
    /\ gameState = "ready"
    /\ score' = 0
    /\ questionCount' = 0
    /\ gameState' = "playing"
    /\ \E q \in SessionQuestions : generateNewQuestion(q)
    /\ asked' = 1
    /\ roundPoints' = << 0 >>
    /\ replayed' = (asked # 0)
    /\ UNCHANGED timers
    /\ UNCHANGED otherVars

\* showHint without the test that the hint is still hidden
showHintRecharges(hintIndex) ==
    /\ QuizScreen
    /\ ExtraRound
    /\ showHints' = [showHints EXCEPT ![hintIndex] = TRUE]
    /\ hintsUsed' = IF hintsUsed = hintIndex THEN hintIndex + 1 ELSE hintsUsed
    /\ UNCHANGED << currentQuestion, selectedAnswer, showResult, score, questionCount,
                    gameState, showFullLyrics, clickedPosition, mapAnswerMode,
                    timers, asked, roundPoints, replayed >>
    /\ UNCHANGED otherVars

\* showHint charging for the highest hint revealed
showHintMarksHighest(hintIndex) ==
    /\ QuizScreen
    /\ ExtraRound
    /\ IF ~showHints[hintIndex]
       THEN /\ showHints' = [showHints EXCEPT ![hintIndex] = TRUE]
            /\ hintsUsed' = Max(hintsUsed, hintIndex + 1)
       ELSE UNCHANGED << showHints, hintsUsed >>
    /\ UNCHANGED << currentQuestion, selectedAnswer, showResult, score, questionCount,
                    gameState, showFullLyrics, clickedPosition, mapAnswerMode,
                    timers, asked, roundPoints, replayed >>
    /\ UNCHANGED otherVars

\* a click on one of the three hint buttons
showHint(hintIndex) ==
    /\ QuizScreen
    /\ ExtraRound
    /\ IF ~showHints[hintIndex]
       THEN /\ showHints' = [showHints EXCEPT ![hintIndex] = TRUE]
            /\ hintsUsed' = IF hintsUsed = hintIndex THEN hintIndex + 1 ELSE hintsUsed
       ELSE UNCHANGED << showHints, hintsUsed >>
    /\ UNCHANGED << currentQuestion, selectedAnswer, showResult, score, questionCount,
                    gameState, showFullLyrics, clickedPosition, mapAnswerMode,
                    timers, asked, roundPoints, replayed >>
    /\ UNCHANGED otherVars

toggleFullLyrics ==
    /\ QuizScreen
    /\ ExtraRound
    /\ showFullLyrics' = ~showFullLyrics
    /\ UNCHANGED << currentQuestion, selectedAnswer, showResult, score, questionCount,
                    gameState, hintsUsed, showHints, clickedPosition, mapAnswerMode,
                    timers, asked, roundPoints, replayed >>
    /\ UNCHANGED otherVars

toggleMapAnswerMode ==
    /\ QuizScreen
    /\ ExtraRound
    /\ mapAnswerMode' = ~mapAnswerMode
    /\ UNCHANGED << currentQuestion, selectedAnswer, showResult, score, questionCount,
                    gameState, showFullLyrics, hintsUsed, showHints, clickedPosition,
                    timers, asked, roundPoints, replayed >>
    /\ UNCHANGED otherVars

\* the radius of a correct map answer, in km
RadiusKm == 50

\* positions the player clicks on the map, in tenths of a degree
ClickPoints ==
    { [lat |-> 357, lng |-> 1397], [lat |-> 361, lng |-> 1397],
      [lat |-> 362, lng |-> 1397], [lat |-> 347, lng |-> 1355] }

\* calculateDistance from each click of the model to each school of the
\* store, computed once
Distances ==
    [p \in ClickPoints, i \in 1..Len(extendedSchoolData) |->
        calculateDistance(p.lat, p.lng, extendedSchoolData[i].coordinates.lat,
                          extendedSchoolData[i].coordinates.lng)]

\* the position of the record with this id in the store
IndexOf(id) == CHOOSE i \in 1..Len(extendedSchoolData) : extendedSchoolData[i].id = id

\* the judging comparison excluding the radius itself
isCorrectExclusive(distance) == distance # NaN /\ distance < RadiusKm * 1000

\* the comparison judging a click: distance <= 50, in metres here; every
\* comparison with NaN is false
isCorrect(distance) == distance # NaN /\ distance <= RadiusKm * 1000

\* the points a correct answer earns are added to the current round's entry
Award(points) ==
    roundPoints' = [roundPoints EXCEPT ![Len(roundPoints)] = @ + points]

\* handleMapClick ending the round on a miss
handleMapClickEndsRound(lat, lng) ==
    /\ QuizScreen
    /\ mapAnswerMode /\ ~showResult
    /\ ExtraRound
    /\ clickedPosition' = Some([lat |-> lat, lng |-> lng])
    /\ LET correct == Val(currentQuestion).correct
           distance == Distances[[lat |-> lat, lng |-> lng], IndexOf(correct.id)]
       IN /\ selectedAnswer' = Some(correct)
          /\ showResult' = TRUE
          /\ score' = IF isCorrect(distance) THEN score + calculateScore(TRUE) ELSE score
          /\ Award(IF isCorrect(distance) THEN calculateScore(TRUE) ELSE 0)
          /\ timers' = [i \in 1..Len(timers) |-> FALSE]
    /\ UNCHANGED << currentQuestion, questionCount, gameState, showFullLyrics,
                    hintsUsed, showHints, mapAnswerMode, asked, replayed >>
    /\ UNCHANGED otherVars

\* handleMapClick with MapClickHandler mounted whatever the answer mode
handleMapClickAnyMode(lat, lng) ==
    /\ QuizScreen
    /\ ~showResult
    /\ ExtraRound
    /\ clickedPosition' = Some([lat |-> lat, lng |-> lng])
    /\ LET correct == Val(currentQuestion).correct
           distance == Distances[[lat |-> lat, lng |-> lng], IndexOf(correct.id)]
       IN IF isCorrect(distance)
          THEN /\ selectedAnswer' = Some(correct)
               /\ showResult' = TRUE
               /\ score' = score + calculateScore(TRUE)
               /\ Award(calculateScore(TRUE))
               /\ timers' = [i \in 1..Len(timers) |-> FALSE]
          ELSE /\ Len(timers) < MaxTimers
               /\ timers' = Append([i \in 1..Len(timers) |-> FALSE], TRUE)
               /\ UNCHANGED << selectedAnswer, showResult, score, roundPoints >>
    /\ UNCHANGED << currentQuestion, questionCount, gameState, showFullLyrics,
                    hintsUsed, showHints, mapAnswerMode, asked, replayed >>
    /\ UNCHANGED otherVars

\* a click on the map while MapClickHandler is mounted
handleMapClick(lat, lng) ==
    /\ QuizScreen
    /\ mapAnswerMode /\ ~showResult
    /\ ExtraRound
    /\ ~(currentQuestion = Null \/ showResult)
    /\ clickedPosition' = Some([lat |-> lat, lng |-> lng])
    /\ LET correct == Val(currentQuestion).correct
           distance == Distances[[lat |-> lat, lng |-> lng], IndexOf(correct.id)]
       IN IF isCorrect(distance)
          THEN /\ selectedAnswer' = Some(correct)
               /\ showResult' = TRUE
               /\ score' = score + calculateScore(TRUE)
               /\ Award(calculateScore(TRUE))
               /\ timers' = [i \in 1..Len(timers) |-> FALSE]
          ELSE /\ Len(timers) < MaxTimers
               /\ timers' = Append([i \in 1..Len(timers) |-> FALSE], TRUE)
               /\ UNCHANGED << selectedAnswer, showResult, score, roundPoints >>
    /\ UNCHANGED << currentQuestion, questionCount, gameState, showFullLyrics,
                    hintsUsed, showHints, mapAnswerMode, asked, replayed >>
    /\ UNCHANGED otherVars

\* the deferred callback leaving the marker where it is
timerFiresKeepsMarker ==
    /\ timers # << >>
    /\ timers' = Tail(timers)
    /\ UNCHANGED << currentQuestion, selectedAnswer, showResult, score, questionCount,
                    gameState, showFullLyrics, hintsUsed, showHints, clickedPosition,
                    mapAnswerMode, asked, roundPoints, replayed >>
    /\ UNCHANGED otherVars

\* the callback handleMapClick deferred by 2000 ms; equal delays fire in
\* the order they were set
timerFires ==
    /\ timers # << >>
    /\ timers' = Tail(timers)
    /\ clickedPosition' = Null
    /\ UNCHANGED << currentQuestion, selectedAnswer, showResult, score, questionCount,
                    gameState, showFullLyrics, hintsUsed, showHints, mapAnswerMode,
                    asked, roundPoints, replayed >>
    /\ UNCHANGED otherVars

\* handleAnswer awarding the points without comparing the ids
handleAnswerAlwaysScores(selected) ==
    /\ QuizScreen
    /\ ~showResult
    /\ selectedAnswer' = Some(selected)
    /\ showResult' = TRUE
    /\ score' = score + calculateScore(FALSE)
    /\ Award(calculateScore(FALSE))
    /\ UNCHANGED << currentQuestion, questionCount, gameState, showFullLyrics,
                    hintsUsed, showHints, clickedPosition, mapAnswerMode, timers,
                    asked, replayed >>
    /\ UNCHANGED otherVars

\* handleAnswer taking 20 points for a wrong answer
handleAnswerPenalises(selected) ==
    /\ QuizScreen
    /\ ~showResult
    /\ selectedAnswer' = Some(selected)
    /\ showResult' = TRUE
    /\ score' = IF selected.id = Val(currentQuestion).correct.id
                THEN score + calculateScore(FALSE)
                ELSE score - 20
    /\ Award(IF selected.id = Val(currentQuestion).correct.id
             THEN calculateScore(FALSE)
             ELSE 0 - 20)
    /\ UNCHANGED << currentQuestion, questionCount, gameState, showFullLyrics,
                    hintsUsed, showHints, clickedPosition, mapAnswerMode, timers,
                    asked, replayed >>
    /\ UNCHANGED otherVars

\* handleAnswer setting the score to the points of the round
handleAnswerOverwritesScore(selected) ==
    /\ QuizScreen
    /\ ~showResult
    /\ selectedAnswer' = Some(selected)
    /\ showResult' = TRUE
    /\ score' = IF selected.id = Val(currentQuestion).correct.id
                THEN calculateScore(FALSE)
                ELSE score
    /\ Award(IF selected.id = Val(currentQuestion).correct.id
             THEN calculateScore(FALSE)
             ELSE 0)
    /\ UNCHANGED << currentQuestion, questionCount, gameState, showFullLyrics,
                    hintsUsed, showHints, clickedPosition, mapAnswerMode, timers,
                    asked, replayed >>
    /\ UNCHANGED otherVars

\* handleAnswer reached from a choice button that stays live after the answer
handleAnswerNoFreeze(selected) ==
    /\ QuizScreen
    /\ selectedAnswer' = Some(selected)
    /\ showResult' = TRUE
    /\ score' = IF selected.id = Val(currentQuestion).correct.id
                THEN score + calculateScore(FALSE)
                ELSE score
    /\ Award(IF selected.id = Val(currentQuestion).correct.id
             THEN calculateScore(FALSE)
             ELSE 0)
    /\ UNCHANGED << currentQuestion, questionCount, gameState, showFullLyrics,
                    hintsUsed, showHints, clickedPosition, mapAnswerMode, timers,
                    asked, replayed >>
    /\ UNCHANGED otherVars

\* a click on a choice button, enabled while no result is shown
handleAnswer(selected) ==
    /\ QuizScreen
    /\ ~showResult
    /\ selectedAnswer' = Some(selected)
    /\ showResult' = TRUE
    /\ score' = IF selected.id = Val(currentQuestion).correct.id
                THEN score + calculateScore(FALSE)
                ELSE score
    /\ Award(IF selected.id = Val(currentQuestion).correct.id
             THEN calculateScore(FALSE)
             ELSE 0)
    /\ UNCHANGED << currentQuestion, questionCount, gameState, showFullLyrics,
                    hintsUsed, showHints, clickedPosition, mapAnswerMode, timers,
                    asked, replayed >>
    /\ UNCHANGED otherVars

\* the number of questions of a play-through
NumQuestions == 5

\* nextQuestion comparing with > instead of >=
nextQuestionOffByOne ==
    /\ QuizScreen
    /\ showResult
    /\ LET newCount == questionCount + 1
       IN /\ questionCount' = newCount
          /\ IF newCount > NumQuestions
             THEN /\ gameState' = "finished"
                  /\ UNCHANGED << currentQuestion, selectedAnswer, showResult,
                                  showFullLyrics, hintsUsed, showHints,
                                  clickedPosition, mapAnswerMode, asked,
                                  roundPoints, replayed >>
             ELSE /\ \E q \in SessionQuestions : generateNewQuestion(q)
                  /\ asked' = asked + 1
                  /\ roundPoints' = Append(roundPoints, 0)
                  /\ UNCHANGED << gameState, replayed >>
    /\ UNCHANGED << score, timers >>
    /\ UNCHANGED otherVars

\* nextQuestion carrying the hints of the round over to the next one
nextQuestionKeepsHints ==
    /\ QuizScreen
    /\ showResult
    /\ LET newCount == questionCount + 1
       IN /\ questionCount' = newCount
          /\ IF newCount >= NumQuestions
             THEN /\ gameState' = "finished"
                  /\ UNCHANGED << currentQuestion, selectedAnswer, showResult,
                                  showFullLyrics, clickedPosition, mapAnswerMode, asked,
                                  roundPoints, replayed >>
             ELSE /\ \E q \in SessionQuestions : currentQuestion' = Some(q)
                  /\ selectedAnswer' = Null
                  /\ showResult' = FALSE
                  /\ showFullLyrics' = FALSE
                  /\ clickedPosition' = Null
                  /\ mapAnswerMode' = FALSE
                  /\ asked' = asked + 1
                  /\ roundPoints' = Append(roundPoints, 0)
                  /\ UNCHANGED << gameState, replayed >>
    /\ UNCHANGED << score, timers, hintsUsed, showHints >>
    /\ UNCHANGED otherVars

\* the next button of the result panel
nextQuestion ==
    /\ QuizScreen
    /\ showResult
    /\ LET newCount == questionCount + 1
       IN /\ questionCount' = newCount
          /\ IF newCount >= NumQuestions
             THEN /\ gameState' = "finished"
                  /\ UNCHANGED << currentQuestion, selectedAnswer, showResult,
                                  showFullLyrics, hintsUsed, showHints,
                                  clickedPosition, mapAnswerMode, asked,
                                  roundPoints, replayed >>
             ELSE /\ \E q \in SessionQuestions : generateNewQuestion(q)
                  /\ asked' = asked + 1
                  /\ roundPoints' = Append(roundPoints, 0)
                  /\ UNCHANGED << gameState, replayed >>
    /\ UNCHANGED << score, timers >>
    /\ UNCHANGED otherVars

\* the play-again button starting the next play-through at once
playAgainRestarts ==
    /\ gameState = "finished"
    /\ gameState' = "playing"
    /\ UNCHANGED << currentQuestion, selectedAnswer, showResult, score, questionCount,
                    showFullLyrics, hintsUsed, showHints, clickedPosition,
                    mapAnswerMode, timers, asked, roundPoints, replayed >>
    /\ UNCHANGED otherVars

\* the play-again button of the result screen
playAgain ==
    /\ gameState = "finished"
    /\ gameState' = "ready"
    /\ UNCHANGED << currentQuestion, selectedAnswer, showResult, score, questionCount,
                    showFullLyrics, hintsUsed, showHints, clickedPosition,
                    mapAnswerMode, timers, asked, roundPoints, replayed >>
    /\ UNCHANGED otherVars

\* the first arguments start_collection.sh is run with: none, the three
\* modes of its usage line, and a word that is none of them
ScriptArgs == { "", "dry-run", "collect", "monitor", "status" }

\* a run of start_collection.sh about to start: the first argument, what
\* the run finds in its directory and on the machine (config.json present,
\* only its sample, or neither; credentials.json; python3; the libraries
\* importable or installable; config.json complete), the shell variables,
\* the lines printed and the exit status
ScriptStart(arg, config, credentials, python3, libraries, complete) ==
    [arg |-> arg, config |-> config, credentials |-> credentials,
     python3 |-> python3, libraries |-> libraries, complete |-> complete,
     pc |-> "mode", MODE |-> "", REPLY |-> "", collector |-> Null,
     COLLECTION_RESULT |-> Null, out |-> {}, exit |-> Null]

\* no run of the script
ScriptIdle == ScriptStart("", "present", TRUE, TRUE, TRUE, TRUE)

\* the basic App component before its first render
BasicIdle ==
    [currentQuestion |-> Null, selectedAnswer |-> Null, showResult |-> FALSE,
     score |-> 0, questionCount |-> 0, gameState |-> "ready"]

Init ==
    /\ SessionInit
    /\ data = << >>
    /\ question = Null
    /\ from = [lat |-> 0, lng |-> 0]
    /\ to = [lat |-> 0, lng |-> 0]
    /\ measured = Null
    /\ basic = BasicIdle
    /\ basicCorrect = 0
    /\ script = ScriptIdle

\* a click on one of the choice buttons rendered for the current question
clickChoice ==
    \E i \in 1..4 :
        /\ currentQuestion # Null
        /\ i <= Len(Val(currentQuestion).choices)
        /\ handleAnswer(Val(currentQuestion).choices[i])

Next ==
    \/ startGame
    \/ \E hintIndex \in 0..2 : showHint(hintIndex)
    \/ toggleFullLyrics
    \/ toggleMapAnswerMode
    \/ \E p \in ClickPoints : handleMapClick(p.lat, p.lng)
    \/ timerFires
    \/ clickChoice
    \/ nextQuestion
    \/ playAgain

Spec == Init /\ [][Next]_vars

\* the session with every deferred callback eventually run: a timer set by
\* setTimeout fires once its delay has passed, whatever else happens
SpecLive == Init /\ [][Next]_vars /\ WF_vars(timerFires)

-----------------------------------------------------------------------------
(* generateQuestion on its own, over record stores of every size *)

\* the stores handed to generateQuestion: the first n records, and from
\* 4 records on also a store whose last record repeats the first one's id
Stores ==
    { SubSeq(Universe, 1, n) : n \in 0..MaxStore }
    \cup { Append(SubSeq(Universe, 1, n - 1), Universe[1]) : n \in 4..MaxStore }

GenInit ==
    /\ SessionInit
    /\ currentQuestion = Some(generateQuestion(extendedSchoolData,
                                [index |-> 0, otherOrder |-> << 1, 2, 3 >>,
                                 choiceOrder |-> << 1, 2, 3, 4 >>]))
    /\ data \in Stores
    /\ question = Null
    /\ from = [lat |-> 0, lng |-> 0]
    /\ to = [lat |-> 0, lng |-> 0]
    /\ measured = Null
    /\ basic = BasicIdle
    /\ basicCorrect = 0
    /\ script = ScriptIdle

\* one call generateQuestion(data); the sorts run on copies, data is not
\* written
callGenerateQuestion ==
    /\ question = Null \/ Len(data) <= MaxRecalledStore
    /\ \E rnd \in RandomSources(data, TRUE) :
          /\ question' = Some(generateQuestion(data, rnd))
          /\ data' = dataAfterGenerateQuestion(data, rnd)
    /\ UNCHANGED << distVars, basicVars, script >>
    /\ UNCHANGED sessionVars

GenNext == callGenerateQuestion

SpecGen == GenInit /\ [][GenNext]_vars

-----------------------------------------------------------------------------
(* calculateDistance on its own, over pairs of points of the globe *)

\* the points handed to calculateDistance, in tenths of a degree: two
\* schools, two pairs of antipodes off the poles and the equator, the two
\* poles, and two antipodes on the equator
Points ==
    { [lat |-> 357, lng |-> 1397], [lat |-> 347, lng |-> 1355],
      [lat |-> 25, lng |-> 0], [lat |-> 0 - 25, lng |-> 1800],
      [lat |-> 882, lng |-> 0], [lat |-> 0 - 882, lng |-> 1800],
      [lat |-> 900, lng |-> 0], [lat |-> 0 - 900, lng |-> 0],
      [lat |-> 0, lng |-> 0], [lat |-> 0, lng |-> 1800] }

DistInit ==
    /\ SessionInit
    /\ currentQuestion = Some(generateQuestion(extendedSchoolData,
                                [index |-> 0, otherOrder |-> << 1, 2, 3 >>,
                                 choiceOrder |-> << 1, 2, 3, 4 >>]))
    /\ data = << >>
    /\ question = Null
    /\ from \in Points
    /\ to \in Points
    /\ measured = Null
    /\ basic = BasicIdle
    /\ basicCorrect = 0
    /\ script = ScriptIdle

\* one call calculateDistance(from.lat, from.lng, to.lat, to.lng)
callCalculateDistance ==
    /\ measured = Null
    /\ measured' = Some(calculateDistance(from.lat, from.lng, to.lat, to.lng))
    /\ UNCHANGED << from, to >>
    /\ UNCHANGED << sessionVars, genVars, basicVars, script >>

DistNext == callCalculateDistance

SpecDist == DistInit /\ [][DistNext]_vars

-----------------------------------------------------------------------------
(* The basic App component: five questions, four choices, no hints, no map *)

\* a SchoolData record of the basic component: the fields the engine reads
BasicSchool(i) == [id |-> i, maskedLyrics |-> i]

\* the five records of sampleData, ids 1 to 5
sampleData == [i \in 1..5 |-> BasicSchool(i)]

\* the questions generateQuestion(sampleData) yields
BasicQuestions ==
    { generateQuestion(sampleData, rnd) : rnd \in RandomSources(sampleData, FALSE) }

\* useState initial values followed by the mount effect
BasicMounted ==
    \E q \in BasicQuestions : basic = [BasicIdle EXCEPT !.currentQuestion = Some(q)]

BasicInit ==
    /\ SessionInit
    /\ currentQuestion = Some(generateQuestion(extendedSchoolData,
                                [index |-> 0, otherOrder |-> << 1, 2, 3 >>,
                                 choiceOrder |-> << 1, 2, 3, 4 >>]))
    /\ data = << >>
    /\ question = Null
    /\ from = [lat |-> 0, lng |-> 0]
    /\ to = [lat |-> 0, lng |-> 0]
    /\ measured = Null
    /\ BasicMounted
    /\ basicCorrect = 0
    /\ script = ScriptIdle

\* the basic component's quiz screen is rendered
BasicQuizScreen == basic.gameState = "playing" /\ basic.currentQuestion # Null

\* generateNewQuestion of the basic component, for the question q
basicGenerateNewQuestion(b, q) ==
    [b EXCEPT !.currentQuestion = Some(q), !.selectedAnswer = Null,
              !.showResult = FALSE]

basicStartGame ==
    /\ basic.gameState = "ready"
    /\ \E q \in BasicQuestions :
          basic' = basicGenerateNewQuestion(
                      [basic EXCEPT !.score = 0, !.questionCount = 0,
                                    !.gameState = "playing"], q)
    /\ basicCorrect' = 0
    /\ UNCHANGED << sessionVars, genVars, distVars, script >>

\* the basic handleAnswer adding the point without comparing the ids
basicHandleAnswerAlwaysScores(selected) ==
    /\ BasicQuizScreen
    /\ ~basic.showResult
    /\ basic' = [basic EXCEPT !.selectedAnswer = Some(selected),
                              !.showResult = TRUE,
                              !.score = basic.score + 1]
    /\ basicCorrect' = IF selected.id = Val(basic.currentQuestion).correct.id
                       THEN basicCorrect + 1
                       ELSE basicCorrect
    /\ UNCHANGED << sessionVars, genVars, distVars, script >>

\* a click on a choice button, live while no result is shown
basicHandleAnswer(selected) ==
    /\ BasicQuizScreen
    /\ ~basic.showResult
    /\ basic' = [basic EXCEPT !.selectedAnswer = Some(selected),
                              !.showResult = TRUE,
                              !.score = IF selected.id = Val(basic.currentQuestion).correct.id
                                        THEN basic.score + 1
                                        ELSE basic.score]
    /\ basicCorrect' = IF selected.id = Val(basic.currentQuestion).correct.id
                       THEN basicCorrect + 1
                       ELSE basicCorrect
    /\ UNCHANGED << sessionVars, genVars, distVars, script >>

\* a click on one of the choice buttons of the basic component
basicClickChoice ==
    \E i \in 1..4 :
        /\ basic.currentQuestion # Null
        /\ i <= Len(Val(basic.currentQuestion).choices)
        /\ basicHandleAnswer(Val(basic.currentQuestion).choices[i])

\* the next button of the basic component's result panel
basicNextQuestion ==
    /\ BasicQuizScreen
    /\ basic.showResult
    /\ LET newCount == basic.questionCount + 1
       IN IF newCount >= 5
          THEN basic' = [basic EXCEPT !.questionCount = newCount,
                                      !.gameState = "finished"]
          ELSE \E q \in BasicQuestions :
                  basic' = basicGenerateNewQuestion(
                              [basic EXCEPT !.questionCount = newCount], q)
    /\ UNCHANGED basicCorrect
    /\ UNCHANGED << sessionVars, genVars, distVars, script >>

\* the play-again button of the basic component's result screen
basicPlayAgain ==
    /\ basic.gameState = "finished"
    /\ basic' = [basic EXCEPT !.gameState = "ready"]
    /\ UNCHANGED basicCorrect
    /\ UNCHANGED << sessionVars, genVars, distVars, script >>

BasicNext ==
    \/ basicStartGame
    \/ basicClickChoice
    \/ basicNextQuestion
    \/ basicPlayAgain

SpecBasic == BasicInit /\ [][BasicNext]_vars

-----------------------------------------------------------------------------
(* start_collection.sh, one action per step of the script *)

ScriptInit ==
    /\ SessionInit
    /\ currentQuestion = Some(generateQuestion(extendedSchoolData,
                                [index |-> 0, otherOrder |-> << 1, 2, 3 >>,
                                 choiceOrder |-> << 1, 2, 3, 4 >>]))
    /\ data = << >>
    /\ question = Null
    /\ from = [lat |-> 0, lng |-> 0]
    /\ to = [lat |-> 0, lng |-> 0]
    /\ measured = Null
    /\ basic = BasicIdle
    /\ basicCorrect = 0
    /\ \E arg \in ScriptArgs, config \in { "present", "sample", "absent" },
          credentials \in BOOLEAN, python3 \in BOOLEAN, libraries \in BOOLEAN,
          complete \in BOOLEAN :
          script = ScriptStart(arg, config, credentials, python3, libraries, complete)

\* echo: the line is added to what the run has printed
Echo(sc, line) == [sc EXCEPT !.out = @ \cup { line }]

\* exit n
Exit(sc, n) == [sc EXCEPT !.exit = Some(n), !.pc = "done"]

\* MODE="collect" followed by the if/elif chain on $1
detectMode ==
    /\ script.pc = "mode"
    /\ LET mode == IF script.arg = "dry-run" THEN "dry-run"
                   ELSE IF script.arg = "monitor" THEN "monitor"
                   ELSE IF script.arg = "collect" THEN "collect"
                   ELSE "collect"
       IN script' = [script EXCEPT !.MODE = mode, !.pc = "step1"]
    /\ UNCHANGED << sessionVars, genVars, distVars, basicVars >>

\* Step 1: config.json, credentials.json and python3
checkEnvironment ==
    /\ script.pc = "step1"
    /\ script' =
          IF script.config = "sample"
          THEN Exit(Echo([script EXCEPT !.config = "present"], "config.json created"), 1)
          ELSE IF script.config = "absent"
          THEN Exit(Echo(script, "config template not found"), 1)
          ELSE IF ~script.credentials /\ script.MODE # "dry-run"
          THEN Exit(Echo(script, "credentials.json not found"), 1)
          ELSE IF ~script.python3
          THEN Exit(Echo(script, "python3 not found"), 1)
          ELSE [Echo(script, "environment ok") EXCEPT !.pc = "step2"]
    /\ UNCHANGED << sessionVars, genVars, distVars, basicVars >>

\* Step 2: the inline python that imports or installs the libraries
checkDependencies ==
    /\ script.pc = "step2"
    /\ script' = IF script.libraries
                 THEN [script EXCEPT !.pc = "step3"]
                 ELSE Exit(script, 1)
    /\ UNCHANGED << sessionVars, genVars, distVars, basicVars >>

\* Step 3: the inline python that validates config.json
validateConfig ==
    /\ script.pc = "step3"
    /\ script' = IF ~script.complete /\ script.MODE # "dry-run"
                 THEN Exit(Echo(script, "config incomplete"), 1)
                 ELSE [Echo(script, "config validated") EXCEPT !.pc = "step4"]
    /\ UNCHANGED << sessionVars, genVars, distVars, basicVars >>

\* Step 4: case $MODE in, up to the first command that waits
caseMode ==
    /\ script.pc = "step4"
    /\ LET sc == Echo(script, "step 4")
       IN script' =
            CASE sc.MODE = "dry-run" ->
                   [Echo(sc, "dry run complete") EXCEPT !.pc = "footer"]
              [] sc.MODE = "monitor" ->
                   [Echo(sc, "monitoring started") EXCEPT !.pc = "monitoring"]
              [] sc.MODE = "collect" ->
                   [Echo(sc, "collect preparation") EXCEPT !.pc = "read"]
              [] OTHER ->
                   Exit(Echo(Echo(sc, "invalid mode"), "usage"), 1)
    /\ UNCHANGED << sessionVars, genVars, distVars, basicVars >>

\* read -p ... -n 1 -r and the test [[ $REPLY =~ ^[Yy]$ ]]
readReply ==
    /\ script.pc = "read"
    /\ \E reply \in { "y", "Y", "n", "" } :
          script' =
            IF reply \in { "y", "Y" }
            THEN [Echo(script, "collection started") EXCEPT !.REPLY = reply,
                                                           !.pc = "collecting"]
            ELSE [Echo(script, "collection cancelled") EXCEPT !.REPLY = reply,
                                                             !.pc = "footer"]
    /\ UNCHANGED << sessionVars, genVars, distVars, basicVars >>

\* the report of the collect branch for the value COLLECTION_RESULT has
Report(sc) ==
    IF Val(sc.COLLECTION_RESULT) = 0
    THEN Echo(sc, "collection complete")
    ELSE Echo(sc, "collection failed")

\* the exit status of  integrated_collector.py ... 2>&1 | tee "$LOG_FILE"
\* read from $? : without pipefail a pipeline has the status of its last
\* command, tee
PipelineStatus(collector, tee) == tee

\* integrated_collector.py piped into tee, COLLECTION_RESULT=$? and the
\* report that follows
runCollector ==
    /\ script.pc = "collecting"
    /\ \E collector \in { 0, 1 }, tee \in { 0, 1 } :
          script' = [Report([script EXCEPT
                               !.collector = Some(collector),
                               !.COLLECTION_RESULT = Some(PipelineStatus(collector, tee))])
                     EXCEPT !.pc = "footer"]
    /\ UNCHANGED << sessionVars, genVars, distVars, basicVars >>

\* wait returns: the dashboard and the recorder have both ended
monitorEnds ==
    /\ script.pc = "monitoring"
    /\ script' = [script EXCEPT !.pc = "footer"]
    /\ UNCHANGED << sessionVars, genVars, distVars, basicVars >>

\* Ctrl+C during wait: the INT trap kills both and exits, with the status
\* of kill or the status wait was interrupted with
monitorInterrupted ==
    /\ script.pc = "monitoring"
    /\ \E status \in { 0, 1, 130 } : script' = Exit(script, status)
    /\ UNCHANGED << sessionVars, genVars, distVars, basicVars >>

\* the closing lines and exit 0
footer ==
    /\ script.pc = "footer"
    /\ script' = Exit(Echo(script, "references"), 0)
    /\ UNCHANGED << sessionVars, genVars, distVars, basicVars >>

ScriptNext ==
    \/ detectMode
    \/ checkEnvironment
    \/ checkDependencies
    \/ validateConfig
    \/ caseMode
    \/ readReply
    \/ runCollector
    \/ monitorEnds
    \/ monitorInterrupted
    \/ footer

SpecScript == ScriptInit /\ [][ScriptNext]_vars

-----------------------------------------------------------------------------
(* Properties *)

\* the current question's correct record
Correct == Val(currentQuestion).correct

\* the highest hint index revealed in the round, -1 when none is
HighestRevealed ==
    IF \E i \in 0..2 : showHints[i]
    THEN CHOOSE i \in 0..2 : showHints[i] /\ \A j \in 0..2 : showHints[j] => j <= i
    ELSE 0 - 1

\* a map click farther than the radius from the correct school
MapMiss ==
    \E p \in ClickPoints :
        /\ handleMapClick(p.lat, p.lng)
        /\ calculateDistance(p.lat, p.lng, Correct.coordinates.lat,
                             Correct.coordinates.lng) > RadiusKm * 1000

\* a map click within the radius of the correct school
MapHit ==
    \E p \in ClickPoints :
        /\ handleMapClick(p.lat, p.lng)
        /\ calculateDistance(p.lat, p.lng, Correct.coordinates.lat,
                             Correct.coordinates.lng) <= RadiusKm * 1000

\* C1: for every hintsUsed in 0..3 and both answer paths calculateScore is
\* within [20, 100]; with no hint it is 100 on either path, with three
\* hints and a choice answer it is 40.
C1_ScoreWithin20And100 ==
    /\ \A isMapAnswer \in BOOLEAN :
          calculateScore(isMapAnswer) >= 20 /\ calculateScore(isMapAnswer) <= 100
    /\ hintsUsed = 0 => calculateScore(FALSE) = 100 /\ calculateScore(TRUE) = 100
    /\ hintsUsed = 3 => calculateScore(FALSE) = 40

\* C2: on the result screen the accumulated score is at most the 500 it is
\* shown out of.
C2_FinishedScoreAtMost500 ==
    gameState = "finished" => score <= 500

\* C3: a play-through asks exactly 5 questions: while playing, the
\* questions generated since startGame number questionCount + 1 <= 5; the
\* result screen is entered only by the nextQuestion that raises
\* questionCount from 4 to 5, with exactly 5 questions asked.
C3_ExactlyFiveQuestions ==
    /\ [](gameState = "playing" => asked = questionCount + 1 /\ asked <= 5)
    /\ [](gameState = "finished" => asked = 5 /\ questionCount = 5)
    /\ [][(gameState # "finished" /\ gameState' = "finished")
           => (nextQuestion /\ questionCount = 4 /\ asked' = 5)]_vars
    /\ [][(nextQuestion /\ questionCount = 4) => gameState' = "finished"]_vars

C3_Witness ==
    gameState = "finished" /\ asked = 5 /\ questionCount = 5

\* the ids of a store are pairwise distinct
DistinctIds(d) == \A i, j \in 1..Len(d) : d[i].id = d[j].id => i = j

\* C4: on a store of at least 4 records with pairwise-distinct ids
\* generateQuestion returns exactly 4 choices with pairwise-distinct ids,
\* the correct id exactly once among them, every choice a record of the
\* store.
C4_FourDistinctChoices ==
    (question # Null /\ Len(data) >= 4 /\ DistinctIds(data)) =>
        LET q == Val(question)
        IN /\ q # TypeError
           /\ Len(q.choices) = 4
           /\ DistinctIds(q.choices)
           /\ Cardinality({ i \in 1..Len(q.choices) : q.choices[i].id = q.correct.id }) = 1
           /\ \A i \in 1..Len(q.choices) : \E j \in 1..Len(data) : q.choices[i] = data[j]

C4_Witness ==
    /\ question # Null /\ Len(data) = 5 /\ DistinctIds(data)
    /\ Val(question).choices[3] = Val(question).correct
    /\ Val(question).correct = data[5]

\* C5: a correct choice answer earns 100 minus 20 x (highest revealed
\* hint index + 1), whatever the order of the reveals.
C5_PenaltyByHighestHint ==
    [][\A i \in 1..4 :
          (/\ currentQuestion # Null
           /\ i <= Len(Val(currentQuestion).choices)
           /\ Val(currentQuestion).choices[i].id = Correct.id
           /\ handleAnswer(Val(currentQuestion).choices[i]))
          => score' = score + Max(100 - 20 * (HighestRevealed + 1), 20)]_vars

\* C6: a map click farther than 50 km is a non-terminal miss: showResult
\* stays false, selectedAnswer null and score unchanged, and the round
\* stays answerable (same question, quiz screen, choice buttons enabled,
\* MapClickHandler mounted).
C6_MapMissNonTerminal ==
    [][MapMiss =>
          /\ showResult' = FALSE
          /\ selectedAnswer' = Null
          /\ score' = score
          /\ currentQuestion' = currentQuestion
          /\ questionCount' = questionCount
          /\ gameState' = "playing"
          /\ mapAnswerMode' = TRUE]_vars

C6_Witness ==
    /\ gameState = "playing" /\ ~showResult /\ selectedAnswer = Null
    /\ clickedPosition # Null /\ mapAnswerMode
    /\ timers # << >> /\ timers[Len(timers)]

\* C7: the deferred clear of an earlier click never removes the position a
\* later click recorded.
C7_StaleClearKeepsLaterClick ==
    [][(timerFires /\ ~Head(timers)) => clickedPosition' = clickedPosition]_vars

\* C8: on a store of fewer than 4 records generateQuestion fails and
\* returns no question.
C8_SmallStoreRefused ==
    (question # Null /\ Len(data) < 4) => Val(question) = TypeError

\* C9: a choice click in an unanswered round shows the result with the
\* clicked record selected; it adds max(100 - 20 x hintsUsed, 20) to score
\* when the record's id is the correct id and leaves score unchanged
\* otherwise.
C9_ChoiceAnswerScore ==
    [][\A i \in 1..4 :
          (/\ currentQuestion # Null
           /\ i <= Len(Val(currentQuestion).choices)
           /\ handleAnswer(Val(currentQuestion).choices[i]))
          => LET selected == Val(currentQuestion).choices[i]
             IN /\ showResult = FALSE
                /\ showResult' = TRUE
                /\ selectedAnswer' = Some(selected)
                /\ score' = score + (IF selected.id = Correct.id
                                     THEN Max(100 - 20 * hintsUsed, 20)
                                     ELSE 0)]_vars

C9_Witness ==
    /\ gameState = "playing" /\ questionCount = 0 /\ showResult
    /\ selectedAnswer = Some(Correct)
    /\ clickedPosition = Null
    /\ score = 40

\* C10: a map click within 50 km in an unanswered round selects the correct
\* record, shows the result and adds the map score, which for every
\* hintsUsed is the choice score plus 20.
C10_MapAnswerBonus ==
    /\ [](calculateScore(TRUE) = calculateScore(FALSE) + 20)
    /\ [][MapHit =>
            /\ showResult = FALSE
            /\ showResult' = TRUE
            /\ selectedAnswer' = Some(Correct)
            /\ score' = score + Max(100 - 20 * hintsUsed, 20) + 20]_vars

C10_Witness ==
    /\ gameState = "playing" /\ questionCount = 0 /\ showResult
    /\ selectedAnswer = Some(Correct)
    /\ clickedPosition # Null
    /\ \A i \in 1..Len(timers) : ~timers[i]
    /\ hintsUsed = 3
    /\ score = 60

\* C11: gameState changes only from ready to playing by startGame, from
\* playing to finished by the nextQuestion whose incremented count reaches
\* 5, and from finished to ready by play again; hint reveals, answers, map
\* clicks, timer callbacks and toggles leave it as it is.
C11_PhaseTransitions ==
    /\ [][gameState' # gameState =>
            \/ gameState = "ready" /\ gameState' = "playing" /\ startGame
            \/ /\ gameState = "playing" /\ gameState' = "finished"
               /\ nextQuestion /\ questionCount + 1 = 5
            \/ gameState = "finished" /\ gameState' = "ready" /\ playAgain]_vars
    /\ [][(\/ \E hintIndex \in 0..2 : showHint(hintIndex)
           \/ toggleFullLyrics
           \/ toggleMapAnswerMode
           \/ \E p \in ClickPoints : handleMapClick(p.lat, p.lng)
           \/ timerFires
           \/ clickChoice) => gameState' = gameState]_vars

C11_Witness ==
    gameState = "ready" /\ questionCount = 5 /\ asked = 5

\* C12: startGame, on the first start and after a play-through, leaves
\* score 0, questionCount 0, gameState 'playing', a newly generated question
\* and the round state cleared: no result shown, no answer selected, no hint
\* used or revealed, no clicked position, map-answer mode off.
C12_StartGameResets ==
    [][startGame =>
          /\ score' = 0
          /\ questionCount' = 0
          /\ gameState' = "playing"
          /\ currentQuestion' \in { Some(q) : q \in SessionQuestions }
          /\ asked' = 1
          /\ showResult' = FALSE
          /\ selectedAnswer' = Null
          /\ hintsUsed' = 0
          /\ \A i \in 0..2 : showHints'[i] = FALSE
          /\ clickedPosition' = Null
          /\ mapAnswerMode' = FALSE]_vars

C12_Witness ==
    /\ replayed
    /\ gameState = "playing" /\ questionCount = 0 /\ asked = 1
    /\ score = 0 /\ roundPoints = << 0 >>
    /\ ~showResult /\ selectedAnswer = Null /\ hintsUsed = 0
    /\ clickedPosition = Null /\ ~mapAnswerMode

\* C13: score is 0 after startGame and no event other than the next
\* startGame lowers it.
C13_ScoreNeverDecreases ==
    /\ [][startGame => score' = 0]_vars
    /\ [][score' < score => startGame]_vars

C13_Witness ==
    /\ gameState = "playing" /\ questionCount = 1 /\ showResult
    /\ roundPoints = << 80, 0 >>
    /\ score = 80

\* C14: while the result of a round is shown, score and selectedAnswer are
\* changed by no event before nextQuestion (or the next startGame), and
\* score rises only in a step that ends an unanswered round, so at most once
\* per round.
C14_AnsweredRoundFrozen ==
    /\ [][showResult =>
            \/ score' = score /\ selectedAnswer' = selectedAnswer
            \/ nextQuestion
            \/ startGame]_vars
    /\ [][score' > score => showResult = FALSE /\ showResult' = TRUE]_vars

C14_Witness ==
    /\ gameState = "playing" /\ questionCount = 0 /\ showResult
    /\ roundPoints = << 100 >> /\ score = 100
    /\ hintsUsed = 3

\* C15: a map click is judged correct exactly when the distance computed
\* from it to the correct school is at most 50 km; a distance of exactly
\* 50 km is correct, anything above is not.
C15_JudgedWithinRadius ==
    /\ [](isCorrect(RadiusKm * 1000) /\ ~isCorrect(RadiusKm * 1000 + 1))
    /\ [][\A p \in ClickPoints :
            handleMapClick(p.lat, p.lng) =>
                LET d == calculateDistance(p.lat, p.lng, Correct.coordinates.lat,
                                           Correct.coordinates.lng)
                IN (showResult' /\ selectedAnswer' = Some(Correct))
                   <=> (d >= 0 /\ d <= 50 * 1000)]_vars

C15_Witness ==
    /\ gameState = "playing" /\ showResult
    /\ selectedAnswer = Some(Correct) /\ Correct.id = 1
    /\ clickedPosition = Some([lat |-> 361, lng |-> 1397])

\* C16: showHint(i) for a hint that is already revealed changes nothing, and
\* every showHint(i) leaves hint i revealed, so a second showHint(i) gives
\* the state the first one gave.
C16_ShowHintIdempotent ==
    [][\A i \in 0..2 :
          showHint(i) =>
              /\ showHints'[i]
              /\ showHints[i] => UNCHANGED << showHints, hintsUsed, score >>]_vars

C16_Witness ==
    /\ gameState = "playing" /\ questionCount < MaxExtraRounds
    /\ showHints[0] /\ showHints[1] /\ hintsUsed = 1

\* the sum of a sequence of numbers
RECURSIVE Sum(_)
Sum(seq) == IF seq = << >> THEN 0 ELSE Head(seq) + Sum(Tail(seq))

\* C17: score is always the sum of the points awarded in the rounds played
\* since startGame, one entry per round, 0 for a round answered wrongly; on
\* the result screen the five rounds' points add up to the score shown.
C17_ScoreIsSumOfRounds ==
    /\ score = Sum(roundPoints)
    /\ gameState = "playing" => Len(roundPoints) = questionCount + 1
    /\ gameState = "finished" => Len(roundPoints) = 5

C17_Witness ==
    /\ gameState = "finished"
    /\ roundPoints = << 80, 0, 100, 100, 100 >>
    /\ score = 380

\* C18: calculateDistance returns a number (not NaN) for every pair of
\* points, identical and antipodal ones included; it returns the same for
\* (a, b) and (b, a), and 0 for (a, a).
C18_DistanceSymmetricZeroDefined ==
    measured # Null =>
        /\ Val(measured) # NaN
        /\ Val(measured) = calculateDistance(to.lat, to.lng, from.lat, from.lng)
        /\ from = to => Val(measured) = 0

\* C19: in the basic game score is the number of rounds answered correctly
\* so far: at most questionCount + 1 while playing, between 0 and 5 on the
\* result screen that shows it out of 5.
C19_BasicScoreCountsCorrectRounds ==
    /\ basic.score = basicCorrect
    /\ basic.gameState = "playing" => basic.score <= basic.questionCount + 1
    /\ basic.gameState = "finished" => basic.score >= 0 /\ basic.score <= 5

C19_Witness ==
    basic.gameState = "finished" /\ basic.score = 5 /\ basicCorrect = 5

\* C20: a map click is processed only with map-answer mode on, no result
\* shown and a current question; it then records the clicked position.
\* With map-answer mode off no step records a position, and points are
\* awarded by a choice click only.
C20_MapPathNeedsMapMode ==
    /\ [][\A p \in ClickPoints :
            handleMapClick(p.lat, p.lng) =>
                /\ mapAnswerMode /\ ~showResult /\ currentQuestion # Null
                /\ clickedPosition' = Some(p)]_vars
    /\ [][~mapAnswerMode =>
            /\ clickedPosition' = clickedPosition \/ clickedPosition' = Null
            /\ score' > score => clickChoice]_vars

C20_Witness ==
    /\ gameState = "playing" /\ questionCount = 0
    /\ mapAnswerMode /\ showResult /\ clickedPosition # Null
    /\ roundPoints = << 120 >>

\* C21: nextQuestion raises questionCount by exactly 1 and keeps score;
\* below 5 it installs a newly generated question and clears the round state
\* (result, selected answer, hints used and revealed, clicked position,
\* map-answer mode, full lyrics); at 5 it generates no question and sets
\* gameState to 'finished'.
C21_NextQuestionEffect ==
    [][nextQuestion =>
          /\ questionCount' = questionCount + 1
          /\ score' = score
          /\ IF questionCount + 1 < 5
             THEN /\ currentQuestion' \in { Some(q) : q \in SessionQuestions }
                  /\ asked' = asked + 1
                  /\ showResult' = FALSE
                  /\ selectedAnswer' = Null
                  /\ hintsUsed' = 0
                  /\ \A i \in 0..2 : showHints'[i] = FALSE
                  /\ clickedPosition' = Null
                  /\ mapAnswerMode' = FALSE
                  /\ showFullLyrics' = FALSE
                  /\ gameState' = "playing"
             ELSE /\ gameState' = "finished"
                  /\ asked' = asked
                  /\ currentQuestion' = currentQuestion]_vars

C21_Witness ==
    /\ gameState = "playing" /\ questionCount = 1 /\ asked = 2
    /\ roundPoints = << 60, 0 >> /\ score = 60
    /\ ~showResult /\ selectedAnswer = Null /\ hintsUsed = 0
    /\ clickedPosition = Null /\ ~mapAnswerMode /\ ~showFullLyrics

\* C23: after a map miss the marker is eventually cleared, given that the
\* deferred callback is eventually run; the callback changes clickedPosition
\* only, in whatever phase or round it runs.
C23_MissMarkerCleared ==
    /\ (timers # << >> /\ clickedPosition # Null) ~> (clickedPosition = Null)
    /\ [][timerFires =>
            /\ clickedPosition' = Null
            /\ UNCHANGED << currentQuestion, selectedAnswer, showResult, score,
                            questionCount, gameState, showFullLyrics, hintsUsed,
                            showHints, mapAnswerMode >>]_vars

C23_Witness ==
    /\ gameState = "playing" /\ questionCount = 0 /\ showResult
    /\ roundPoints = << 120 >>
    /\ clickedPosition = Null
    /\ timers = << >>

\* C24: while the result panel shows a correct answer, the points it
\* displays, calculateScore(clickedPosition !== null) with the current
\* hintsUsed, are the points that were added to score for the round.
C24_DisplayedPointsAreAwarded ==
    (QuizScreen /\ showResult /\ selectedAnswer # Null
        /\ Val(selectedAnswer).id = Correct.id)
    => calculateScore(clickedPosition # Null) = roundPoints[Len(roundPoints)]

\* the hints revealed in the current round
Revealed == { i \in 0..2 : showHints[i] }

\* C25: hintsUsed is within 0..3 and never above the number of hints
\* revealed, and hints 0 .. hintsUsed-1 are all revealed; as long as the
\* hints are revealed in the order 0, 1, 2, hintsUsed is the number revealed.
C25_HintsUsedWithinRevealed ==
    /\ [](/\ hintsUsed \in 0..3
          /\ hintsUsed <= Cardinality(Revealed)
          /\ \A i \in 0..2 : i < hintsUsed => showHints[i])
    /\ [][\A i \in 0..2 :
            (showHint(i) /\ Revealed = 0..(i - 1) /\ hintsUsed = i)
            => (Revealed' = 0..i /\ hintsUsed' = i + 1)]_vars

C25_Witness ==
    /\ gameState = "playing" /\ ~showResult
    /\ Revealed = 0..2 /\ hintsUsed = 3

\* C26: while the result of a round is shown no event changes hintsUsed or
\* the revealed hints, until nextQuestion (or startGame) generates the next
\* question.
C26_HintsFrozenAfterAnswer ==
    [][showResult =>
          \/ hintsUsed' = hintsUsed /\ showHints' = showHints
          \/ nextQuestion
          \/ startGame]_vars

\* C27: questionCount is within 0..5; while playing it is at most 4 and
\* there is a current question; on the result screen it is 5; a result is
\* shown exactly when an answer is selected.
C27_SessionInvariant ==
    /\ questionCount \in 0..5
    /\ gameState = "playing" => questionCount <= 4 /\ currentQuestion # Null
    /\ gameState = "finished" => questionCount = 5
    /\ showResult <=> selectedAnswer # Null

C27_Witness ==
    /\ gameState = "finished" /\ questionCount = 5
    /\ showResult /\ selectedAnswer # Null /\ currentQuestion # Null
    /\ Val(selectedAnswer).id # Correct.id

\* C28: within a play-through no school is the correct answer of two
\* rounds; in particular the question nextQuestion installs never has the
\* correct school of the round it follows.
C28_NoRepeatedCorrectSchool ==
    [][(nextQuestion /\ gameState' = "playing")
          => Val(currentQuestion').correct.id # Val(currentQuestion).correct.id]_vars

C29_CollectorFailureReported ==
    script.collector # Null =>
        /\ Val(script.collector) # 0 =>
              /\ "collection failed" \in script.out
              /\ "collection complete" \notin script.out
        /\ "collection complete" \in script.out => Val(script.collector) = 0

\* C30: a first argument other than dry-run, collect and monitor never
\* starts the collect flow, and a run that gets as far as the mode dispatch
\* with it reports an invalid mode with the usage text and exits with 1.
C30_InvalidModeRejected ==
    (script.arg \notin { "", "dry-run", "collect", "monitor" }) =>
        /\ "collect preparation" \notin script.out
        /\ "step 4" \in script.out =>
              /\ "invalid mode" \in script.out
              /\ "usage" \in script.out
              /\ script.exit = Some(1)

====
